---- MODULE Spec2Model ----
(***************************************************************************)
(* Model of src/src/cygw32.c: the Cygwin path conversion entry points      *)
(* cygwin-convert-path-to-windows / cygwin-convert-path-from-windows, the  *)
(* working-directory guard they run under (chdir_to_default_directory and  *)
(* fchdir_unwind), and the UTF-16LE marshalling helpers to_unicode and     *)
(* from_unicode.                                                           *)
(*                                                                         *)
(* A Lisp string is a record [mb, size, data]: mb is STRING_MULTIBYTE,     *)
(* size is SBYTES, and data holds the size content bytes followed by the   *)
(* terminating zero byte every Lisp string carries, so Len(data) = size+1. *)
(* Qnil is the record with empty data.                                     *)
(***************************************************************************)
EXTENDS Integers, Sequences, FiniteSets, TLC

\* Longest path (in characters) the callers pass to the entry points.
MaxPathLen == 2

\* Smallest length-query result accepted by conv_filename_to_w32_unicode.
MinLenToW32 == 2

\* Smallest length-query result accepted by conv_filename_from_w32_unicode.
MinLenFromW32 == 1

----------------------------------------------------------------------------
(* Sequences and character sets *)

SeqsUpTo(S, n) == UNION {[1..k -> S] : k \in 0..n}

\* '/', 'a' and U+0161 (a character whose UTF-16 high byte is not zero).
PosixChars == {47, 97, 353}

\* '\', 'a' and U+0161.
WinChars == {92, 97, 353}

\* "C:", the drive prefix the facility gives absolute native paths.
DrivePrefix == <<67, 58>>

IsPrefix(p, s) == Len(p) <= Len(s) /\ SubSeq(s, 1, Len(p)) = p

----------------------------------------------------------------------------
(* Text encodings (the host's transcoders) *)

\* UTF-8 bytes of one character (also the host's internal representation).
Utf8Char(c) ==
  IF c < 128 THEN <<c>>
  ELSE IF c < 2048 THEN <<192 + (c \div 64), 128 + (c % 64)>>
  ELSE <<224 + (c \div 4096), 128 + ((c \div 64) % 64), 128 + (c % 64)>>

RECURSIVE Utf8Encode(_)
Utf8Encode(chars) ==
  IF chars = <<>> THEN <<>>
  ELSE Utf8Char(Head(chars)) \o Utf8Encode(Tail(chars))

\* A byte that is no part of a valid sequence decodes to a raw-byte character.
RawByteChar(b) == IF b < 128 THEN b ELSE 4194048 + b

RECURSIVE Utf8Decode(_)
Utf8Decode(bytes) ==
  IF bytes = <<>> THEN <<>>
  ELSE LET b == Head(bytes) IN
    IF b >= 192 /\ b < 224 /\ Len(bytes) >= 2
      THEN <<(b - 192) * 64 + (bytes[2] - 128)>>
             \o Utf8Decode(SubSeq(bytes, 3, Len(bytes)))
    ELSE IF b >= 224 /\ b < 240 /\ Len(bytes) >= 3
      THEN <<(b - 224) * 4096 + (bytes[2] - 128) * 64 + (bytes[3] - 128)>>
             \o Utf8Decode(SubSeq(bytes, 4, Len(bytes)))
    ELSE <<RawByteChar(b)>> \o Utf8Decode(Tail(bytes))

\* UTF-16 little endian without byte-order mark (characters of the BMP).
RECURSIVE Utf16leEncode(_)
Utf16leEncode(chars) ==
  IF chars = <<>> THEN <<>>
  ELSE <<Head(chars) % 256, Head(chars) \div 256>> \o Utf16leEncode(Tail(chars))

\* A trailing single byte is no code unit: it decodes to a raw-byte character.
RECURSIVE Utf16leDecode(_)
Utf16leDecode(bytes) ==
  IF bytes = <<>> THEN <<>>
  ELSE IF Len(bytes) = 1 THEN <<RawByteChar(bytes[1])>>
  ELSE <<bytes[1] + 256 * bytes[2]>> \o Utf16leDecode(SubSeq(bytes, 3, Len(bytes)))

----------------------------------------------------------------------------
(* Lisp strings *)

Qnil == [mb |-> FALSE, size |-> 0, data |-> <<>>]

STRINGP(x) == x.data # <<>>

SBYTES(s) == s.size

STRING_MULTIBYTE(s) == s.mb

\* The content bytes of a string, without its terminator.
Content(s) == SubSeq(s.data, 1, s.size)

\* allocate_string_data: nbytes content bytes and a zero byte after them.
MakeUnibyte(bytes) == [mb |-> FALSE, size |-> Len(bytes), data |-> bytes \o <<0>>]

MakeMultibyte(chars) ==
  [mb |-> TRUE, size |-> Len(Utf8Encode(chars)), data |-> Utf8Encode(chars) \o <<0>>]

\* A string as the reader builds it: unibyte when every character is ASCII.
BuildString(chars) ==
  IF \A i \in 1..Len(chars) : chars[i] < 128
    THEN MakeUnibyte(chars) ELSE MakeMultibyte(chars)

\* The characters of a string.
Chars(s) ==
  IF s.mb THEN Utf8Decode(Content(s))
  ELSE [i \in 1..s.size |-> RawByteChar(s.data[i])]

\* The bytes a decoder reads from a string.
SourceBytes(s) ==
  IF s.mb
    THEN [i \in 1..Len(Chars(s)) |->
            IF Chars(s)[i] >= 4194048 THEN Chars(s)[i] - 4194048 ELSE Chars(s)[i] % 256]
    ELSE Content(s)

\* Fsubstring (str, from, to) with to counted from the end when negative.
Fsubstring(str, from, to) ==
  LET n == IF str.mb THEN Len(Chars(str)) ELSE str.size
      e == IF to < 0 THEN n + to ELSE to
  IN IF str.mb THEN MakeMultibyte(SubSeq(Chars(str), from + 1, e))
     ELSE MakeUnibyte(SubSeq(Content(str), from + 1, e))

\* code_convert_string_norecord (str, Qutf_16_le, encodep)
code_convert_string_norecord(str, encodep) ==
  IF encodep THEN MakeUnibyte(Utf16leEncode(Chars(str)))
  ELSE MakeMultibyte(Utf16leDecode(SourceBytes(str)))

\* ENCODE_FILE / DECODE_FILE with a UTF-8 file-name coding system.
ENCODE_FILE(s) == MakeUnibyte(Utf8Encode(Chars(s)))

DECODE_FILE(s) == MakeMultibyte(Utf8Decode(SourceBytes(s)))

\* The C string at SDATA (s): the bytes before the first zero byte.
RECURSIVE CString(_)
CString(data) ==
  IF data = <<>> \/ Head(data) = 0 THEN <<>>
  ELSE <<Head(data)>> \o CString(Tail(data))

\* The wide string at WCSDATA (s): the 16-bit units before the first zero unit.
RECURSIVE WString(_)
WString(data) ==
  IF Len(data) < 2 \/ (data[1] = 0 /\ data[2] = 0) THEN <<>>
  ELSE <<data[1] + 256 * data[2]>> \o WString(SubSeq(data, 3, Len(data)))

----------------------------------------------------------------------------
(* Marshalling helpers *)

\* Variant: no zero byte is added to the encoded string.
to_unicode_single(str) == code_convert_string_norecord(str, TRUE)

\* to_unicode: the string stored in *buf (the function returns WCSDATA (*buf)).
to_unicode(str) ==
  LET enc == code_convert_string_norecord(str, TRUE)
  IN [mb |-> FALSE,
      size |-> SBYTES(enc) + 1,
      data |-> (Content(enc) \o <<0>>) \o <<0>>]

\* Variant: the multibyte mark is not consulted.
from_unicode_arg_any(str) ==
  IF SBYTES(str) % 2 = 1 THEN Fsubstring(str, 0, -1) ELSE str

\* Variant: nothing is trimmed.
from_unicode_arg_whole(str) == str

\* from_unicode: the string handed to the decoder.
from_unicode_arg(str) ==
  IF ~STRING_MULTIBYTE(str) /\ SBYTES(str) % 2 = 1
    THEN Fsubstring(str, 0, -1)
    ELSE str

from_unicode(str) == code_convert_string_norecord(from_unicode_arg(str), FALSE)

\* make_uninit_string (n): n content bytes of unspecified value g, then zero.
make_uninit_string(n, g) ==
  [mb |-> FALSE, size |-> n, data |-> [i \in 1..n |-> g] \o <<0>>]

----------------------------------------------------------------------------
(* The conversion facility cygwin_conv_path and the directories *)

Swap(c, a, b) == IF c = a THEN b ELSE c

PosixToWin(chars, relative, dir) ==
  LET sep(s) == [i \in 1..Len(s) |-> Swap(s[i], 47, 92)]
  IN IF IsPrefix(<<47>>, chars) THEN DrivePrefix \o sep(chars)
     ELSE IF relative THEN sep(chars)
     ELSE DrivePrefix \o sep(dir \o chars)

WinToPosix(chars, relative, dir) ==
  LET sep(s) == [i \in 1..Len(s) |-> Swap(s[i], 92, 47)]
  IN IF IsPrefix(DrivePrefix, chars)
       THEN sep(SubSeq(chars, Len(DrivePrefix) + 1, Len(chars)))
     ELSE IF relative THEN sep(chars)
     ELSE dir \o sep(chars)

\* The bytes the facility produces for `from`, terminator included.
ConvPathOutput(flags, from, dir) ==
  IF flags.what = "CCP_POSIX_TO_WIN_W"
    THEN Utf16leEncode(PosixToWin(Utf8Decode(CString(from)), flags.relative, dir))
           \o <<0, 0>>
    ELSE Utf8Encode(WinToPosix(WString(from), flags.relative, dir)) \o <<0>>

\* Return values with which the length query can report failure.
QueryFaults == {-1, 0, 1}

\* Nonzero return values of the fill call.
FillFaults == {-1, 1}

\* Values of uninitialised string bytes.
GarbageBytes == {0, 170}

\* "/" and "/d/".
LocalDirs == {<<47>>, <<47, 100, 47>>}

\* "/@/": a default directory owned by a file-name handler.
HandledDirs == {<<47, 64, 47>>}

\* Funhandled_file_name_directory (Fexpand_file_name (".", Qnil))
UnhandledDefaultDirectory(dd) ==
  IF dd \in HandledDirs THEN Qnil ELSE BuildString(dd)

\* The directory chdir_to_default_directory changes to.
NewCwd(dd) ==
  LET new_cwd == UnhandledDefaultDirectory(dd)
  IN IF ~STRINGP(new_cwd) THEN BuildString(<<47>>) ELSE new_cwd

\* The directory a C path names.
DirOfPath(data) == Utf8Decode(CString(data))

----------------------------------------------------------------------------
(* Inputs *)

PosixPaths == {BuildString(c) : c \in SeqsUpTo(PosixChars, MaxPathLen)}

WinPaths == {BuildString(c) : c \in SeqsUpTo(WinChars, MaxPathLen)}

\* Strings other callers hand to from_unicode: raw bytes, and multibyte text.
UnicodeInputs ==
  {MakeUnibyte(b) : b \in SeqsUpTo({0, 97}, MaxPathLen + 1)}
    \cup {MakeMultibyte(c) : c \in SeqsUpTo({97}, MaxPathLen + 1)}

----------------------------------------------------------------------------
(* State *)

VARIABLES
  pc,                \* position of the running call, "idle" between calls
  op,                \* the entry point of the current (or last) call
  path,              \* its path argument
  absolute_p,        \* its absolute-p argument
  src,               \* the string whose data is passed to the facility
  count,             \* SPECPDL_INDEX () at entry
  old_cwd_fd,        \* result of open (".")
  specpdl,           \* the unwind-protect stack
  cwd,               \* the process's current directory
  default_directory, \* the host's default directory
  fd_table,          \* open descriptors: pairs <<fd, directory>>
  converted_len,     \* result of the length query
  converted,         \* the output string
  err,               \* message of the error signalled, "" when none
  ret,               \* value returned by the last call, Qnil when none
  trace,             \* system and facility calls made by the current call
  cwd0,              \* the process's current directory when the call started
  prev               \* the call whose result is the argument of this one

vars == <<pc, op, path, absolute_p, src, count, old_cwd_fd, specpdl, cwd,
          default_directory, fd_table, converted_len, converted, err, ret,
          trace, cwd0, prev>>

NoPrev == [op |-> "", path |-> Qnil, absolute_p |-> FALSE, ret |-> Qnil,
           cwd |-> <<>>]

Logged(call, arg, r) == Append(trace, [call |-> call, arg |-> arg, ret |-> r])

Init ==
  /\ pc = "idle"
  /\ op = ""
  /\ path = Qnil
  /\ absolute_p = FALSE
  /\ src = Qnil
  /\ count = 0
  /\ old_cwd_fd = -1
  /\ specpdl = <<>>
  /\ cwd \in LocalDirs
  /\ default_directory \in LocalDirs \cup HandledDirs
  /\ fd_table = {}
  /\ converted_len = 0
  /\ converted = Qnil
  /\ err = ""
  /\ ret = Qnil
  /\ trace = <<>>
  /\ cwd0 = cwd
  /\ prev = NoPrev

----------------------------------------------------------------------------
(* Entry points *)

\* State common to the start of every call.
Enter(name, arg, abs) ==
  /\ pc = "idle"
  /\ op' = name
  /\ path' = arg
  /\ absolute_p' = abs
  /\ count' = Len(specpdl)
  /\ old_cwd_fd' = -1
  /\ converted_len' = 0
  /\ converted' = Qnil
  /\ err' = ""
  /\ trace' = <<>>
  /\ cwd0' = cwd
  /\ UNCHANGED <<specpdl, cwd, default_directory, fd_table>>

\* (cygwin-convert-path-to-windows PATH ABSOLUTE-P): enters
\* conv_filename_to_w32_unicode.
Fcygwin_convert_path_to_windows ==
  \E p \in PosixPaths, abs \in BOOLEAN :
    /\ Enter("to", p, abs)
    /\ pc' = "open"
    /\ src' = Qnil
    /\ ret' = Qnil
    /\ prev' = NoPrev

\* The record of the finished call, kept when its result is passed on.
Finished ==
  [op |-> op, path |-> path, absolute_p |-> absolute_p, ret |-> ret, cwd |-> cwd]

\* (cygwin-convert-path-from-windows PATH ABSOLUTE-P): to_unicode (path, &path),
\* then enters conv_filename_from_w32_unicode.  PATH is a native path of the
\* caller's, or the string cygwin-convert-path-to-windows has just returned.
Fcygwin_convert_path_from_windows ==
  \E abs \in BOOLEAN, chained \in BOOLEAN :
    \E w \in IF chained THEN {ret} ELSE WinPaths :
      /\ chained => op = "to"
      /\ STRINGP(w)
      /\ Enter("from", w, abs)
      /\ pc' = "open"
      /\ src' = to_unicode(w)
      /\ ret' = Qnil
      /\ prev' = IF chained THEN Finished ELSE NoPrev

\* from_unicode called on its own (it is an exported function).
CallFromUnicode ==
  \E str \in UnicodeInputs :
    /\ Enter("from_unicode", str, FALSE)
    /\ pc' = "idle"
    /\ src' = Qnil
    /\ prev' = NoPrev
    /\ ret' = from_unicode(str)

----------------------------------------------------------------------------
(* chdir_to_default_directory *)

\* error (...): control leaves the function and the stack is unwound.
Signal(msg) ==
  /\ err' = msg
  /\ pc' = "unbind"

\* open (".", O_RDONLY | O_DIRECTORY) returns the lowest free descriptor.
LowestFreeFd ==
  CHOOSE n \in 3..(3 + Cardinality(fd_table)) :
    /\ \A e \in fd_table : e[1] # n
    /\ \A m \in 3..(n - 1) : \E e \in fd_table : e[1] = m

\* Variant: the result of open is tested against zero.
OpenFailedZero(fd) == fd = 0

\* if (old_cwd_fd == -1)
OpenFailed(fd) == fd = -1

\* old_cwd_fd = open (".", O_RDONLY | O_DIRECTORY), and the check of it.
chdir_to_default_directory_open ==
  /\ pc = "open"
  /\ \E fd \in {LowestFreeFd, -1} :
       /\ old_cwd_fd' = fd
       /\ fd_table' = IF fd = -1 THEN fd_table ELSE fd_table \cup {<<fd, cwd>>}
       /\ trace' = Logged("open", 0, fd)
       /\ IF OpenFailed(fd)
            THEN Signal("could not open current directory")
            ELSE pc' = "record" /\ err' = err
  /\ UNCHANGED <<op, path, absolute_p, src, count, specpdl, cwd,
                 default_directory, converted_len, converted, ret, cwd0, prev>>

\* record_unwind_protect (fchdir_unwind, make_number (old_cwd_fd))
chdir_to_default_directory_record ==
  /\ pc = "record"
  /\ specpdl' = Append(specpdl, [func |-> "fchdir_unwind", arg |-> old_cwd_fd])
  /\ pc' = "chdir"
  /\ UNCHANGED <<op, path, absolute_p, src, count, old_cwd_fd, cwd,
                 default_directory, fd_table, converted_len, converted, err,
                 ret, trace, cwd0, prev>>

\* Variant: the result of chdir is not tested.
ChdirFailedIgnored(r) == FALSE

\* if (chdir (...))
ChdirFailed(r) == r # 0

\* new_cwd is resolved, then chdir (SDATA (ENCODE_FILE (new_cwd))) and its check.
chdir_to_default_directory_chdir ==
  /\ pc = "chdir"
  /\ \E r \in {0, -1} :
       /\ cwd' = IF r = 0
                   THEN DirOfPath(ENCODE_FILE(NewCwd(default_directory)).data)
                   ELSE cwd
       /\ trace' = Logged("chdir", 0, r)
       /\ IF ChdirFailed(r)
            THEN Signal("could not chdir")
            ELSE pc' = "query" /\ err' = err
  /\ UNCHANGED <<op, path, absolute_p, src, count, old_cwd_fd, specpdl,
                 default_directory, fd_table, converted_len, converted, ret,
                 cwd0, prev>>

----------------------------------------------------------------------------
(* conv_filename_to_w32_unicode / conv_filename_from_w32_unicode *)

Flags ==
  [what |-> IF op = "to" THEN "CCP_POSIX_TO_WIN_W" ELSE "CCP_WIN_W_TO_POSIX",
   relative |-> ~absolute_p]

\* The smallest converted_len that is not an error.
MinLen == IF op = "to" THEN MinLenToW32 ELSE MinLenFromW32

\* The string whose data is the facility's source argument.
Source == IF op = "to" THEN ENCODE_FILE(path) ELSE src

\* Variant: the terminator is not subtracted.
AllocSizeWhole(len) == len

\* Content bytes allocated for a length-query result of len.
AllocSize(len) == len - 1

\* Variant: both directions test converted_len < 1.
QueryFailedBelowOne(len) == len < 1

\* if (converted_len < 2) / if (converted_len < 1)
QueryFailed(len) == len < MinLen

\* Variant: only a negative return counts as failure.
FillFailedNegative(r) == r < 0

\* if (cygwin_conv_path (flags, in, SDATA (converted), converted_len))
FillFailed(r) == r # 0

\* converted_len = cygwin_conv_path (flags, in, NULL, 0), and the check of it.
conv_filename_query ==
  /\ pc = "query"
  /\ src' = Source
  /\ \E len \in {Len(ConvPathOutput(Flags, Source.data, cwd))} \cup QueryFaults :
       /\ converted_len' = len
       /\ trace' = Logged("cygwin_conv_path/query", 0, len)
       /\ IF QueryFailed(len)
            THEN Signal("cygwin_conv_path")
            ELSE pc' = "fill" /\ err' = err
  /\ UNCHANGED <<op, path, absolute_p, count, old_cwd_fd, specpdl, cwd,
                 default_directory, fd_table, converted, ret, cwd0, prev>>

\* The string after the facility wrote out into it from its first byte on.
Filled(str, out) ==
  [str EXCEPT !.data = out \o SubSeq(str.data, Len(out) + 1, Len(str.data))]

\* converted = make_uninit_string (converted_len - 1), and the fill call
\* cygwin_conv_path (flags, in, SDATA (converted), converted_len).
conv_filename_fill ==
  /\ pc = "fill"
  /\ \E g \in GarbageBytes :
       LET out == ConvPathOutput(Flags, src.data, cwd)
           buf == make_uninit_string(AllocSize(converted_len), g)
       IN \E r \in IF converted_len < Len(out) THEN {-1} ELSE {0} \cup FillFaults :
            /\ trace' = Logged("cygwin_conv_path/fill", converted_len, r)
            /\ converted' = IF r = 0 THEN Filled(buf, out) ELSE buf
            /\ pc' = "unbind"
            /\ err' = IF FillFailed(r) THEN "cygwin_conv_path" ELSE err
  /\ UNCHANGED <<op, path, absolute_p, src, count, old_cwd_fd, specpdl, cwd,
                 default_directory, fd_table, converted_len, ret, cwd0, prev>>

----------------------------------------------------------------------------
(* Unwinding: unbind_to (count, value) and the unwinding done by error *)

Top == specpdl[Len(specpdl)]

\* Variant: the cleanup does not change directory.
FchdirTargetStays(fd) == cwd

\* The directory fchdir (fd) moves the process to.
FchdirTarget(fd) == (CHOOSE e \in fd_table : e[1] = fd)[2]

\* fchdir_unwind: (void) fchdir (XFASTINT (dir_fd))
fchdir_unwind_fchdir ==
  /\ pc = "unbind"
  /\ Len(specpdl) > count
  /\ \E ok \in BOOLEAN :
       IF ok /\ \E e \in fd_table : e[1] = Top.arg
         THEN /\ cwd' = FchdirTarget(Top.arg)
              /\ trace' = Logged("fchdir", Top.arg, 0)
         ELSE /\ cwd' = cwd
              /\ trace' = Logged("fchdir", Top.arg, -1)
  /\ pc' = "close"
  /\ UNCHANGED <<op, path, absolute_p, src, count, old_cwd_fd, specpdl,
                 default_directory, fd_table, converted_len, converted, err,
                 ret, cwd0, prev>>

\* Variant: the descriptor is closed only when the fchdir before it succeeded.
ClosedIfRestored(fd) ==
  IF trace[Len(trace)].ret = 0 THEN {e \in fd_table : e[1] # fd} ELSE fd_table

\* The descriptor table after close (fd).
Closed(fd) == {e \in fd_table : e[1] # fd}

\* fchdir_unwind: (void) close (XFASTINT (dir_fd)); the entry is popped.
fchdir_unwind_close ==
  /\ pc = "close"
  /\ fd_table' = Closed(Top.arg)
  /\ trace' = Logged("close", Top.arg, IF Closed(Top.arg) = fd_table THEN -1 ELSE 0)
  /\ specpdl' = SubSeq(specpdl, 1, Len(specpdl) - 1)
  /\ pc' = "unbind"
  /\ UNCHANGED <<op, path, absolute_p, src, count, old_cwd_fd, cwd,
                 default_directory, converted_len, converted, err, ret, cwd0, prev>>

\* The value the entry point returns when no error was signalled.
ReturnValue ==
  IF op = "to" THEN from_unicode(converted) ELSE DECODE_FILE(converted)

\* The call ends: it returns its value, or the error reaches the caller.
Return ==
  /\ pc = "unbind"
  /\ Len(specpdl) = count
  /\ ret' = IF err = "" THEN ReturnValue ELSE Qnil
  /\ pc' = "idle"
  /\ UNCHANGED <<op, path, absolute_p, src, count, old_cwd_fd, specpdl, cwd,
                 default_directory, fd_table, converted_len, converted, err,
                 trace, cwd0, prev>>

----------------------------------------------------------------------------

Next ==
  \/ Fcygwin_convert_path_to_windows
  \/ Fcygwin_convert_path_from_windows
  \/ CallFromUnicode
  \/ chdir_to_default_directory_open
  \/ chdir_to_default_directory_record
  \/ chdir_to_default_directory_chdir
  \/ conv_filename_query
  \/ conv_filename_fill
  \/ fchdir_unwind_fchdir
  \/ fchdir_unwind_close
  \/ Return

Spec == Init /\ [][Next]_vars

----------------------------------------------------------------------------
(* Properties *)

\* A conversion call has ended (by returning or by an error).
CallEnded == pc = "idle" /\ op \in {"to", "from"}

\* The entries of the trace that are calls of name.
Calls(name) == {i \in DOMAIN trace : trace[i].call = name}

OpenedOk == \E i \in Calls("open") : trace[i].ret >= 0

ChdirOk == \E i \in Calls("chdir") : trace[i].ret = 0

FchdirFailed == \E i \in Calls("fchdir") : trace[i].ret # 0

\* C1 as stated: whenever a conversion call ends, by a result or by an error,
\* the process's current directory is the one that was current when the call
\* started.
C1_AlwaysRestored == CallEnded => cwd = cwd0

\* C1 amended: whenever a conversion call ends, the process's current directory
\* is the one that was current when the call started, unless the fchdir of the
\* cleanup failed; that failure is ignored, the call ends as it would have, and
\* the process stays in the directory the call had moved it to.
C1_RestoredUnlessFchdirFails ==
  CallEnded =>
    /\ ~FchdirFailed => cwd = cwd0
    /\ FchdirFailed =>
         cwd = IF ChdirOk
                 THEN (IF default_directory \in HandledDirs
                         THEN <<47>> ELSE default_directory)
                 ELSE cwd0

\* C1 witness: a call that had moved the process elsewhere ended in an error of
\* the fill call, its cleanup succeeded, and the process is back.
C1_Witness ==
  /\ CallEnded
  /\ err = "cygwin_conv_path"
  /\ Calls("cygwin_conv_path/fill") # {}
  /\ ~FchdirFailed
  /\ default_directory # cwd0
  /\ cwd = cwd0

\* The length query returned at least the minimum of the direction.
QueryOk ==
  \E i \in Calls("cygwin_conv_path/query") :
    trace[i].ret >= (IF op = "to" THEN 2 ELSE 1)

FillOk == \E i \in Calls("cygwin_conv_path/fill") : trace[i].ret = 0

\* C2: a conversion call returns a path value if and only if the open, the
\* chdir, the length query and the fill call all succeeded; otherwise it ends
\* in an error and returns nothing.
C2_NoPartialResult ==
  CallEnded =>
    /\ STRINGP(ret) <=> (OpenedOk /\ ChdirOk /\ QueryOk /\ FillOk)
    /\ STRINGP(ret) <=> err = ""
    /\ (\E i \in Calls("cygwin_conv_path/fill") : trace[i].ret # 0)
         => err = "cygwin_conv_path" /\ ret = Qnil

\* C2 witness: the fill call returned a positive value and the call ended in an
\* error with no value.
C2_Witness ==
  /\ CallEnded
  /\ \E i \in Calls("cygwin_conv_path/fill") : trace[i].ret > 0
  /\ ret = Qnil
  /\ err = "cygwin_conv_path"

\* C3: a length-query result below the minimum (2 to native, 1 from native)
\* ends the call in an error without a fill call; for a result at or above the
\* minimum the fill call is made exactly once, with that length as capacity.
C3_LengthQueryDecidesFill ==
  /\ Cardinality(Calls("cygwin_conv_path/query")) <= 1
  /\ \A i \in Calls("cygwin_conv_path/fill") :
       /\ i > 1
       /\ trace[i - 1].call = "cygwin_conv_path/query"
       /\ trace[i - 1].ret >= (IF op = "to" THEN 2 ELSE 1)
       /\ trace[i].arg = trace[i - 1].ret
  /\ \A i \in Calls("cygwin_conv_path/query") :
       /\ trace[i].ret < (IF op = "to" THEN 2 ELSE 1)
            => /\ Calls("cygwin_conv_path/fill") = {}
               /\ err = "cygwin_conv_path"
               /\ pc \in {"unbind", "close", "idle"}
       /\ (trace[i].ret >= (IF op = "to" THEN 2 ELSE 1) /\ pc # "fill")
            => Cardinality(Calls("cygwin_conv_path/fill")) = 1

\* C3 witness: the query of a to-native call returned 1 and the call ended with
\* no fill call.
C3_Witness ==
  /\ CallEnded
  /\ op = "to"
  /\ \E i \in Calls("cygwin_conv_path/query") : trace[i].ret = 1
  /\ Calls("cygwin_conv_path/fill") = {}

\* C3 second case reached: a from-native query returned exactly 1 and the fill
\* call was made.
C3_BoundaryFill ==
  /\ CallEnded
  /\ op = "from"
  /\ \E i \in Calls("cygwin_conv_path/query") : trace[i].ret = 1
  /\ Calls("cygwin_conv_path/fill") # {}

\* The character sequence is a relative POSIX path.
IsRelative(chars) == ~IsPrefix(<<47>>, chars)

\* The finished call converted the string that cygwin-convert-path-to-windows
\* returned for a relative path, both with absolute-p nil.
RoundTripEnded ==
  /\ CallEnded
  /\ op = "from"
  /\ ~absolute_p
  /\ prev.op = "to"
  /\ ~prev.absolute_p
  /\ path = prev.ret
  /\ IsRelative(Chars(prev.path))
  /\ err = ""

\* C4: cygwin-convert-path-from-windows applied to the result of
\* cygwin-convert-path-to-windows (p, nil), with absolute-p nil and the same
\* default directory, returns the relative path p.
C4_RoundTrip == RoundTripEnded => Chars(ret) = Chars(prev.path)

\* C4 witness: a round trip of a two-character relative path with a separator
\* and a non-ASCII character ended.
C4_Witness ==
  /\ RoundTripEnded
  /\ Chars(prev.path) = <<353, 47>>
  /\ Chars(path) = <<353, 92>>
  /\ Chars(ret) = <<353, 47>>

\* C5: the string to_unicode stores in *buf has the byte length of the
\* UTF-16LE encoding of the path plus 1, begins with exactly the encoded bytes,
\* and the last two bytes of its storage (the added byte and the string's own
\* terminator) are both zero.
C5_DoubleNull ==
  op = "from" =>
    LET enc == Utf16leEncode(Chars(path)) IN
      /\ SBYTES(src) = Len(enc) + 1
      /\ Len(src.data) = SBYTES(src) + 1
      /\ SubSeq(src.data, 1, Len(enc)) = enc
      /\ src.data[Len(src.data) - 1] = 0
      /\ src.data[Len(src.data)] = 0
      /\ ~STRING_MULTIBYTE(src)

\* C5 witness: to_unicode ran on a path whose encoding ends in a nonzero byte.
C5_Witness ==
  /\ op = "from"
  /\ Chars(path) = <<97, 353>>
  /\ src.data = <<97, 0, 97, 1, 0, 0>>

\* The bytes from_unicode must hand to the decoder for str.
ExpectedDecoded(str) ==
  IF STRING_MULTIBYTE(str) THEN SourceBytes(str)
  ELSE IF SBYTES(str) % 2 = 1 THEN SubSeq(str.data, 1, SBYTES(str) - 1)
  ELSE SubSeq(str.data, 1, SBYTES(str))

\* C6: from_unicode decodes a string not marked multibyte of odd byte length
\* without its last byte, a string of even byte length whole, and a string
\* marked multibyte whole whatever its byte length.
C6_OddLengthTrim ==
  (pc = "idle" /\ op = "from_unicode") =>
    ret = MakeMultibyte(Utf16leDecode(ExpectedDecoded(path)))

\* C6 witness: from_unicode returned for a unibyte string of three bytes.
C6_Witness ==
  /\ pc = "idle"
  /\ op = "from_unicode"
  /\ ~STRING_MULTIBYTE(path)
  /\ Content(path) = <<97, 0, 97>>
  /\ Chars(ret) = <<97>>

\* C6 second case reached: a multibyte string of odd byte length was decoded
\* whole.
C6_MultibyteOdd ==
  /\ pc = "idle"
  /\ op = "from_unicode"
  /\ STRING_MULTIBYTE(path)
  /\ SBYTES(path) = 3
  /\ Len(Chars(ret)) = 2

\* C7: at most one saved working-directory handle exists at any time; it is
\* opened before the chdir, and by the end of the call it has been closed
\* exactly once, after the restoring fchdir was attempted, whether or not that
\* fchdir succeeded; no handle is open and no cleanup is registered between
\* calls.
C7_OneHandleClosedOnce ==
  /\ Cardinality(fd_table) <= 1
  /\ Len(specpdl) <= 1
  /\ \A e \in fd_table : e[1] = old_cwd_fd
  /\ \A i \in Calls("chdir") : \E j \in Calls("open") : j < i /\ trace[j].ret >= 0
  /\ \A i \in Calls("close") :
       /\ trace[i].ret = 0
       /\ i > 1
       /\ trace[i - 1].call = "fchdir"
       /\ trace[i - 1].arg = trace[i].arg
       /\ \E j \in Calls("open") : j < i /\ trace[j].ret = trace[i].arg
  /\ pc = "idle" =>
       /\ fd_table = {}
       /\ specpdl = <<>>
       /\ \A j \in Calls("open") :
            trace[j].ret >= 0 =>
              Cardinality({i \in Calls("close") : trace[i].arg = trace[j].ret}) = 1

\* C7 witness: a call ended whose restoring fchdir failed and whose handle was
\* closed all the same.
C7_Witness ==
  /\ CallEnded
  /\ FchdirFailed
  /\ \E i \in Calls("close") : trace[i].ret = 0 /\ trace[i].arg = old_cwd_fd
  /\ fd_table = {}

\* C8: when the open of the current directory fails the call ends at once in
\* an I/O error: nothing else is called, no cleanup is registered, and the
\* process's current directory is unchanged.
C8_OpenFailureStopsCall ==
  (\E i \in Calls("open") : trace[i].ret = -1) =>
    /\ Len(trace) = 1
    /\ specpdl = <<>>
    /\ fd_table = {}
    /\ cwd = cwd0
    /\ err = "could not open current directory"
    /\ ret = Qnil
    /\ converted = Qnil
    /\ pc \in {"unbind", "idle"}

\* C8 witness: a call ended after its open failed.
C8_Witness ==
  /\ CallEnded
  /\ trace = <<[call |-> "open", arg |-> 0, ret |-> -1]>>
  /\ err = "could not open current directory"

\* The directory the guard moves the process to.
GuardDirectory ==
  IF default_directory \in HandledDirs THEN <<47>> ELSE default_directory

\* C9: the facility is called only while the guard is active: whenever a
\* length query or a fill call is about to be made or has been made, the handle
\* was saved and registered before it and the chdir succeeded before it; while
\* the call is about to be made the process is in the resolved default
\* directory ("/" when there is none); after a failed chdir the facility is
\* never called.
C9_FacilityUnderGuard ==
  /\ pc \in {"query", "fill"} =>
       /\ specpdl = <<[func |-> "fchdir_unwind", arg |-> old_cwd_fd]>>
       /\ \E e \in fd_table : e[1] = old_cwd_fd /\ e[2] = cwd0
       /\ ChdirOk
       /\ cwd = GuardDirectory
  /\ \A i \in Calls("cygwin_conv_path/query") \cup Calls("cygwin_conv_path/fill") :
       /\ \E j \in Calls("open") : j < i /\ trace[j].ret >= 0
       /\ \E j \in Calls("chdir") : j < i /\ trace[j].ret = 0
       /\ \A j \in Calls("fchdir") \cup Calls("close") : i < j
  /\ (\E j \in Calls("chdir") : trace[j].ret # 0) =>
       Calls("cygwin_conv_path/query") \cup Calls("cygwin_conv_path/fill") = {}

\* C9 witness: the fill call is about to be made in a default directory that
\* differs from the directory the call started in.
C9_Witness ==
  /\ pc = "fill"
  /\ cwd = <<47, 100, 47>>
  /\ cwd0 = <<47>>
  /\ specpdl # <<>>

\* C10: in cygwin-convert-path-to-windows the fill call is given capacity L on
\* a unibyte string of L-1 content bytes and one terminator byte, and the
\* string returned decodes exactly the first L-2 bytes the facility wrote: the
\* wide path without either byte of its terminator.
C10_TrimDropsTerminator ==
  /\ (op = "to" /\ \E i \in Calls("cygwin_conv_path/fill") : trace[i].ret = 0) =>
       /\ converted_len % 2 = 0
       /\ converted_len >= 2
       /\ trace[Len(trace)].call = "cygwin_conv_path/fill"
            => trace[Len(trace)].arg = converted_len
       /\ ~STRING_MULTIBYTE(converted)
       /\ SBYTES(converted) = converted_len - 1
       /\ Len(converted.data) = converted_len
       /\ converted.data[converted_len - 1] = 0
       /\ converted.data[converted_len] = 0
  /\ (CallEnded /\ op = "to" /\ err = "") =>
       /\ ret = MakeMultibyte(
                  Utf16leDecode(SubSeq(converted.data, 1, converted_len - 2)))
       /\ Chars(ret) = WString(converted.data)
       /\ \A k \in 1..Len(Chars(ret)) : Chars(ret)[k] # 0

\* C10 witness: a to-native call returned for L = 6.
C10_Witness ==
  /\ CallEnded
  /\ op = "to"
  /\ err = ""
  /\ converted_len = 6
  /\ converted.data = <<97, 0, 97, 1, 0, 0>>
  /\ Chars(ret) = <<97, 353>>

====
